---- MODULE Spec2Model ----
(***************************************************************************)
(* tools-for-pygame: the Lang parser of pgt/lang.py.                       *)
(*                                                                         *)
(* loads(s, encoding, as_dict) splits the text into lines, builds the raw  *)
(* tree line by line with a stack of open sets (_make_lang_dict) and then  *)
(* resolves the references of the raw tree (_make_lang_obj).               *)
(*                                                                         *)
(* Strings are sequences of one-character strings, so that prefixes,       *)
(* find, split and concatenation are computed as the code computes them.   *)
(* Python dicts are sequences of entries (insertion ordered, an assignment *)
(* to an existing key keeps the key's position) held in a heap indexed by  *)
(* object identity, because the stack and the tree share the dict objects. *)
(***************************************************************************)
EXTENDS Integers, Sequences, FiniteSets, TLC

\* ------------------------------------------------------------- bounds
\* Longest input, in lines, of each family of input texts.
MaxSetLines == 4
MaxRefLines == 5
MaxTextLines == 5
MaxMiscLines == 3
MaxNameLines == 3
MaxFileLines == 3
MaxRedeclLines == 4

\* The frames of an animation of an AniElement.
AniLength == 2

\* Element.rotate: the angles are the multiples of 45 degrees of at most
\* MaxTurn eighths of a turn, either way.
MaxTurn == 8

\* GUIElement: the widths and heights given to the element and to its
\* window, the padding on each side, and the largest side of a rect.
MaxSize == 2

MaxPad == 1

MaxDim == 6

\* ------------------------------------------------------- string helpers
Whitespace == {" "}

\* s[:n]
Take(s, n) == SubSeq(s, 1, IF n < Len(s) THEN n ELSE Len(s))

\* s[n:]
Drop(s, n) == SubSeq(s, n + 1, Len(s))

\* l.strip() == ""
IsBlank(s) == \A i \in 1..Len(s) : s[i] \in Whitespace

RECURSIVE lstrip(_)
lstrip(s) == IF s # <<>> /\ s[1] \in Whitespace THEN lstrip(Tail(s)) ELSE s

\* str.find: the 1-based index of the first c in s, 0 when there is none
\* (Python: 0-based, -1 when there is none)
\* faulty variant: the index of the last occurrence (str.rfind)
find_last(s, c) ==
    IF \E i \in 1..Len(s) : s[i] = c
    THEN CHOOSE i \in 1..Len(s) : s[i] = c /\ \A j \in (i + 1)..Len(s) : s[j] # c
    ELSE 0

RECURSIVE find(_, _)
find(s, c) ==
    IF s = <<>> THEN 0
    ELSE IF s[1] = c THEN 1
    ELSE LET r == find(Tail(s), c) IN IF r = 0 THEN 0 ELSE r + 1

\* faulty variant: splits at the first occurrence only (maxsplit = 1)
split_once(s, c) ==
    LET i == find(s, c)
    IN IF i = 0 THEN <<s>>
       ELSE <<SubSeq(s, 1, i - 1), Drop(s, i)>>

\* str.split(c): always at least one piece
RECURSIVE split(_, _)
split(s, c) ==
    LET i == find(s, c)
    IN IF i = 0 THEN <<s>>
       ELSE <<SubSeq(s, 1, i - 1)>> \o split(Drop(s, i), c)

\* c.join(parts)
RECURSIVE join(_, _)
join(parts, c) ==
    IF parts = <<>> THEN <<>>
    ELSE IF Len(parts) = 1 THEN parts[1]
    ELSE parts[1] \o <<c>> \o join(Tail(parts), c)

\* str.lower on the letters of the alphabet in use
LowerChar(c) ==
    CASE c = "U" -> "u"
      [] c = "T" -> "t"
      [] c = "F" -> "f"
      [] OTHER -> c

lower(s) == [i \in 1..Len(s) |-> LowerChar(s[i])]

\* name_expr = [a-zA-Z_]\w* with re.ASCII
NameStart ==
    {"a", "b", "c", "d", "e", "f", "g", "h", "i", "j", "k", "l", "m", "n",
     "o", "p", "q", "r", "s", "t", "u", "v", "w", "x", "y", "z", "U", "T", "F",
     "_"}

NameChar == NameStart \cup {"0", "1", "2", "8"}

\* faulty variant: the first character may be a digit (the pattern \w+)
check_name_word(s) ==
    /\ s # <<>>
    /\ \A i \in 1..Len(s) : s[i] \in NameChar

\* _check_name passes: match is not None and match[0] == s
check_name(s) ==
    /\ s # <<>>
    /\ s[1] \in NameStart
    /\ \A i \in 2..Len(s) : s[i] \in NameChar

\* ------------------------------------------------------------ values
\* What a key of a raw dict holds: a str, a dict (by identity), a LangEval.
StrV(s) == [t |-> "str", s |-> s]

DictV(id) == [t |-> "dict", id |-> id]

\* LangEval.__init__: added_value starts empty
LangEval(branches, local, l_no) ==
    [t |-> "eval", branches |-> branches, local |-> local, l_no |-> l_no,
     added_value |-> <<>>]

\* What an attribute of a LangNode holds after resolution: a str or a LangNode;
\* getattr can also return a bound method of the class.
NodeV(attrs) == [t |-> "node", attrs |-> attrs]

MethodV == [t |-> "method"]

\* An ordered mapping (a dict, or the __dict__ of a LangNode): a sequence of
\* entries [k, v] with distinct keys.
HasKey(d, k) == \E i \in 1..Len(d) : d[i].k = k

KeyIndex(d, k) == CHOOSE i \in 1..Len(d) : d[i].k = k

Lookup(d, k) == d[KeyIndex(d, k)].v

\* faulty variant: a str assigned to a key that holds a LangEval is appended to
\* its added_value
DictSet_accumulate(d, k, v) ==
    IF HasKey(d, k) /\ Lookup(d, k).t = "eval" /\ v.t = "str"
    THEN [d EXCEPT ![KeyIndex(d, k)].v.added_value = @ \o v.s]
    ELSE IF HasKey(d, k)
    THEN [d EXCEPT ![KeyIndex(d, k)] = [k |-> k, v |-> v]]
    ELSE Append(d, [k |-> k, v |-> v])

\* d[k] = v: a new key goes last, an existing key keeps its position
DictSet(d, k, v) ==
    IF HasKey(d, k)
    THEN [d EXCEPT ![KeyIndex(d, k)] = [k |-> k, v |-> v]]
    ELSE Append(d, [k |-> k, v |-> v])

\* ------------------------------------------------------------- Stack
\* pgt/stack.py: a LIFO list; len counts every item, the root included.
peek(st) == st[Len(st)]

pop(st) == SubSeq(st, 1, Len(st) - 1)

push(st, x) == Append(st, x)

\* ------------------------------------------------------------ outcomes
Running == [kind |-> "running"]

\* faulty variant: the message shows the 0-based index
LangError_index(l_no, msg, arg) ==
    [kind |-> "LangError", line |-> l_no, msg |-> msg, arg |-> arg]

\* LangError.__init__: the message shows l_no + 1; arg is the text
\* interpolated into msg (a name or a dotted path)
LangError(l_no, msg, arg) ==
    [kind |-> "LangError", line |-> l_no + 1, msg |-> msg, arg |-> arg]

TypeError == [kind |-> "TypeError"]

EncodingWarning(name) == [kind |-> "EncodingWarning", arg |-> name]

UnicodeDecodeError == [kind |-> "UnicodeDecodeError"]

\* -------------------------------------------------------------- inputs
\* The default of the encoding argument of loads
Utf8 == <<"u", "t", "f", "-", "8">>

\* The input text is a sequence of lines (s.split("\n"), so no line holds a
\* newline) drawn from one of five families, or read by load from a file.
\* Sets: opening, auto-closing and closing sets, a reference to a set, an
\* attribute named as a set, an escaped line.
SetLines ==
    { <<"$", "a">>, <<"$", "$", "b">>, <<"$", "$", "$", "c">>, <<"$", "c">>,
      <<"$", "!">>, <<"$", "$", "!">>, <<"$", "$", "$", "1">>,
      <<"@", "x", ":", "1">>, <<"@", "x">>, <<"t">>, <<"~", "@", "y", ":", "a">>,
      <<"@", "a">>, <<"\\", "$", "a">> }

\* References: absolute and relative references, their targets.
RefLines ==
    { <<"$", "a">>, <<"$", "!">>, <<"@", "x", ":", "1">>, <<"@", "y", ":", "0">>,
      <<"~", "@", "y", ":", "a", ".", "x">>, <<".", "~", "@", "y", ":", "x">>,
      <<"~", "@", "y", ":", "g", "e", "t">> }

\* Text: attributes, continuation lines, redeclarations.
TextLines ==
    { <<"@", "x", ":", "1">>, <<"@", "x">>, <<"t">>, <<"&", "t">>,
      <<"~", "@", "y", ":", "x">>, <<"@", "y">>, <<"@", "y", ":", "t">>,
      <<"~", "@", "y", ":", "t">> }

\* Miscellaneous: blank lines, comments, encoding declarations, indentation.
MiscLines ==
    { <<>>, <<" ">>, <<":", ":", "c">>, <<"%", "=", "u", "t", "f", "-", "8">>,
      <<"%", "=", "U", "T", "F", "-", "8">>, <<"%", "=", "l", "a", "t", "i", "n">>,
      <<"@", "x">>, <<"t">>, <<" ", "@", "x", ":", "1">>, <<"\\", "$", "a">>,
      <<"\\", "&", "t">>, <<"@", "x", ":", "1", ":", "2">> }

\* Names: declarations with empty or malformed names, references with a wrong
\* number of colons.
NameLines ==
    { <<"$", "a">>, <<"$", "1">>, <<"$", "$", "$", "1">>, <<"$">>,
      <<"@", "1">>, <<"@">>, <<"@", "1", ":", "v">>, <<"@", ":", "v">>,
      <<"@", "x", ":", "1">>,
      <<"~", "@", "1", ":", "x">>, <<".", "~", "@", "1", ":", "x">>,
      <<"~", "@", ":", "x">>, <<"~", "@", "1">>, <<"~", "@", "y">>,
      <<"~", "@", "y", ":", "x">>, <<"~", "@", "y", ":", "a", ":", "b">>,
      <<"~", "@", "1", ":", "a", ":", "b">>, <<"t">>,
      <<"@", "_", "_", "d", "i", "c", "t", "_", "_", ":", "1">> }

\* Files: what load reads.  A line of a file is a sequence of bytes: an ASCII
\* byte is written as its character, "E9" is the byte 0xE9 ('e' acute in
\* latin-1), "C3" "A9" are the bytes 0xC3 0xA9 ('e' acute in utf-8).
Latin == <<"l", "a", "t", "i", "n">>

FileLines ==
    { <<"%", "=", "l", "a", "t", "i", "n">>, <<"%", "=", "u", "t", "f", "-", "8">>,
      <<"%", "=", "U", "T", "F", "-", "8">>, <<"@", "x", ":", "1">>,
      <<"@", "x", ":", "E9">>, <<"@", "x", ":", "C3", "A9">> }

Files == UNION { [1..n -> FileLines] : n \in 0..MaxFileLines }

HighBytes == {"E9", "C3", "A9"}

\* The codec a name selects: the names of the inputs are "latin" and "utf-8"
\* in either case.
IsUtf8(name) == lower(name) = Utf8

\* bytes.decode("latin"): every byte is the character of the same code;
\* the characters 0xE9, 0xC3, 0xA9 are written "eacute", "Atilde", "copy"
LatinChar(b) ==
    CASE b = "E9" -> "eacute"
      [] b = "C3" -> "Atilde"
      [] b = "A9" -> "copy"
      [] OTHER -> b

\* bytes.decode("utf-8") of a line that is valid utf-8: 0xC3 0xA9 is one
\* character
RECURSIVE DecodeUtf8(_)
DecodeUtf8(b) ==
    IF b = <<>> THEN <<>>
    ELSE IF b[1] = "C3" THEN <<"eacute">> \o DecodeUtf8(SubSeq(b, 3, Len(b)))
    ELSE <<b[1]>> \o DecodeUtf8(Tail(b))

\* errors = "strict": a byte >= 0x80 that does not start a complete sequence
\* is UnicodeDecodeError
RECURSIVE ValidUtf8(_)
ValidUtf8(b) ==
    IF b = <<>> THEN TRUE
    ELSE IF b[1] = "C3" THEN Len(b) >= 2 /\ b[2] = "A9" /\ ValidUtf8(SubSeq(b, 3, Len(b)))
    ELSE b[1] \notin HighBytes /\ ValidUtf8(Tail(b))

\* f.read() of a file opened with the encoding `name`
Decodable(f, name) == IsUtf8(name) => \A i \in 1..Len(f) : ValidUtf8(f[i])

Decode(f, name) ==
    [i \in 1..Len(f) |->
        IF IsUtf8(name) THEN DecodeUtf8(f[i])
        ELSE [j \in 1..Len(f[i]) |-> LatinChar(f[i][j])]]

\* The lines a decoded file can hold.
FileTextLines ==
    { DecodeUtf8(b) : b \in {c \in FileLines : ValidUtf8(c)} }
       \cup { [j \in 1..Len(b) |-> LatinChar(b[j])] : b \in FileLines }

\* Redeclarations: a set opened under the name of an earlier set or attribute.
RedeclLines ==
    { <<"$", "a">>, <<"$", "$", "a">>, <<"$", "$", "b">>, <<"@", "a", ":", "1">>,
      <<"@", "b", ":", "2">>, <<"$", "!">> }

Families == {"sets", "refs", "text", "misc", "names", "redecl", "file"}

Lines(f) ==
    CASE f = "sets" -> SetLines
      [] f = "refs" -> RefLines
      [] f = "text" -> TextLines
      [] f = "misc" -> MiscLines
      [] f = "names" -> NameLines
      [] f = "redecl" -> RedeclLines
      [] f = "file" -> FileTextLines

MaxLines(f) ==
    CASE f = "sets" -> MaxSetLines
      [] f = "refs" -> MaxRefLines
      [] f = "text" -> MaxTextLines
      [] f = "misc" -> MaxMiscLines
      [] f = "names" -> MaxNameLines
      [] f = "redecl" -> MaxRedeclLines
      [] f = "file" -> MaxFileLines

\* --------------------------------------------------------------- state
VARIABLES
    family,      \* the family the input text is drawn from, "file" for load
    file,        \* load: the lines of the file at path, as bytes
    decoded,     \* load: f.read() of the pass under way, as lines
    pass,        \* load: 1 in the try block, 2 in the except block
    encoding,    \* loads: the encoding argument
    heap,        \* the dict objects by identity; heap[1] is root
    dict_stack,  \* _make_lang_dict: the Stack of open sets, root at the bottom
    attr,        \* _make_lang_dict: the pending attribute name, "" when none
    lines,       \* _make_lang_dict: lines[0 : l_no], the lines processed so far
    l_no,        \* _make_lang_dict: the index of the next line
    pc,          \* "build" inside the loop of _make_lang_dict, "failed" when it
                 \* raised, "done" when it returned and loads went on
    as_dict,     \* loads: the as_dict argument, read when the build is over
    len_before,  \* history: len(dict_stack) when the line processed last was read
    result,      \* what loads returned or raised
    hidden,      \* Element: self.hidden
    present,     \* AniElement: the names of the animations added to the element
    frame,       \* AniElement: the frame each animation is at, 0 when not running
    current_ani, \* AniElement: self.current_ani, the names in the order of start
    is_hiding,   \* AniElement: self.is_hiding
    zone,        \* mouse: where the cursor is with respect to the rect
    pressed,     \* mouse: pygame.mouse.get_pressed()
    prev_hovered,  \* MouseInteractionElement: self.__prev_hovered
    keep_clicked,  \* MouseInteractionElement: self.__keep_clicked
    call,        \* element: the method called last, "none" after a mouse event
    hovered_ret, \* MouseInteractionElement: what hovered returned last
    clicked_ret, \* MouseInteractionElement: what clicked returned last
    entered_held, \* history: the cursor entered the rect with a button held and
                 \* no poll has seen it inside with no button pressed since
    shown,       \* history: show() was called and hide() has not been since
    rot,         \* Element: self._rot
    image_rot,   \* Element: the angle self.image is turned by, in 0..359
    backup,      \* Element: self.__backup_image is not None
    angle,       \* rotate: the angle argument of the last call
    abs_,        \* rotate: the abs_ argument of the last call
    rect_size,   \* GUIElement: self.rect.size
    padding_ul,  \* GUIElement: self.padding_ul, x the left and y the top padding
    padding_dr,  \* GUIElement: self.padding_dr, x the right and y the bottom padding
    base_size,   \* GUIElement: self.base_size
    rel_size     \* GUIElement: self.rel_size, "None" or "full" (1.0) each way

langVars == <<family, file, decoded, pass, encoding, heap, dict_stack, attr, lines,
              l_no, pc, as_dict, len_before, result>>

aniVars == <<present, frame, current_ani, is_hiding, shown>>

mouseVars == <<zone, pressed, prev_hovered, keep_clicked, hovered_ret, clicked_ret,
               entered_held>>

rotVars == <<rot, image_rot, backup, angle, abs_>>

guiVars == <<rect_size, padding_ul, padding_dr, base_size, rel_size>>

elementVars == <<hidden, call, aniVars, mouseVars, rotVars, guiVars>>

vars == <<langVars, elementVars>>

\* The three mouse buttons, none pressed.
NoButton == [b \in 1..3 |-> FALSE]

AniNames == {"_hide", "_show", "walk"}

\* No animation is in use.
AniIdle ==
    /\ present = {}
    /\ frame = [n \in AniNames |-> 0]
    /\ current_ani = <<>>
    /\ is_hiding = FALSE
    /\ shown = FALSE

\* The mouse is not looked at.
MouseIdle ==
    /\ zone = "out"
    /\ pressed = NoButton
    /\ prev_hovered = FALSE
    /\ keep_clicked = FALSE
    /\ hovered_ret = FALSE
    /\ clicked_ret = NoButton
    /\ entered_held = FALSE

\* The element is not rotated.
RotIdle ==
    /\ rot = 0
    /\ image_rot = 0
    /\ backup = FALSE
    /\ angle = 0
    /\ abs_ = FALSE

\* The element has no size, padding or relative size.
GuiIdle ==
    /\ rect_size = [w |-> 0, h |-> 0]
    /\ padding_ul = [x |-> 0, y |-> 0]
    /\ padding_dr = [x |-> 0, y |-> 0]
    /\ base_size = [w |-> 0, h |-> 0]
    /\ rel_size = [w |-> "None", h |-> "None"]

\* No element is in use.
ElementIdle ==
    /\ hidden = FALSE
    /\ call = "none"
    /\ AniIdle
    /\ MouseIdle
    /\ RotIdle
    /\ GuiIdle

\* the line processed last
l == IF lines = <<>> THEN <<>> ELSE lines[Len(lines)]

\* root = {}; dict_stack = Stack(root); attr = ""
Init ==
    /\ \/ /\ family \in Families \ {"file"}
          /\ file = <<>>
          /\ encoding = Utf8
          /\ pc = "build"
       \/ /\ family = "file"
          /\ file \in Files
          /\ encoding \in {Utf8, Latin}
          /\ pc = "open"
    /\ decoded = <<>>
    /\ pass = 1
    /\ heap = << <<>> >>
    /\ dict_stack = <<1>>
    /\ attr = <<>>
    /\ lines = <<>>
    /\ l_no = 0
    /\ as_dict = FALSE
    /\ len_before = 1
    /\ result = Running
    /\ ElementIdle

\* The branch of the loop body a line takes (the if/elif chain).
Kind(line) ==
    LET st == lstrip(line)
    IN IF IsBlank(line) \/ st = <<>> THEN "blank"
       ELSE IF Take(st, 2) = <<"%", "=">> THEN "encoding"
       ELSE IF Take(st, 2) = <<":", ":">> THEN "comment"
       ELSE IF Take(st, 1) = <<"$">> THEN "set"
       ELSE IF Take(st, 1) = <<"@">> THEN "attr"
       ELSE IF Take(st, 2) = <<"~", "@">> \/ Take(st, 3) = <<".", "~", "@">> THEN "ref"
       ELSE "text"

\* for l_no, l in enumerate(lines): the next line of the text is `line`
NextLine(line, kind) ==
    /\ pc = "build"
    /\ IF family = "file"
       THEN l_no < Len(decoded) /\ line = decoded[l_no + 1]
       ELSE l_no < MaxLines(family) /\ line \in Lines(family)
    /\ Kind(line) = kind
    /\ lines' = Append(lines, line)
    /\ l_no' = l_no + 1
    /\ len_before' = Len(dict_stack)
    /\ UNCHANGED <<file, decoded, pass, elementVars>>

\* raise: the build is aborted, the locals stay as they were
Raise(e) ==
    /\ pc' = "failed"
    /\ result' = e

Continue ==
    /\ pc' = pc
    /\ result' = result

\* ------------------------------------------------------- the build pass
\* if l.strip() == "": continue
BlankLine(line) ==
    /\ NextLine(line, "blank")
    /\ Continue
    /\ UNCHANGED <<family, encoding, heap, dict_stack, attr, as_dict>>

\* l[:2] == "%=": a declaration that differs from the encoding in use raises
\* EncodingWarning, one that agrees resets attr
EncodingLine(line) ==
    /\ NextLine(line, "encoding")
    /\ LET name == Drop(lstrip(line), 2)
       IN IF lower(name) # lower(encoding)
          THEN Raise(EncodingWarning(name)) /\ UNCHANGED attr
          ELSE Continue /\ attr' = <<>>
    /\ UNCHANGED <<family, encoding, heap, dict_stack, as_dict>>

\* faulty variant: a comment ends the pending attribute
CommentLine_resets(line) ==
    /\ NextLine(line, "comment")
    /\ Continue
    /\ attr' = <<>>
    /\ UNCHANGED <<family, encoding, heap, dict_stack, as_dict>>

\* l[:2] == "::": continue
CommentLine(line) ==
    /\ NextLine(line, "comment")
    /\ Continue
    /\ UNCHANGED <<family, encoding, heap, dict_stack, attr, as_dict>>

\* while l[:1] == "$": l = l[1:]; dict_count += 1
RECURSIVE CountMarkers(_)
CountMarkers(s) ==
    IF Take(s, 1) = <<"$">> THEN 1 + CountMarkers(Tail(s)) ELSE 0

\* faulty variant: off by one, a set may skip a level
TooDeep_skip(dict_count, st) == dict_count > Len(st) + 1

\* if dict_count > len(dict_stack): raise
TooDeep(dict_count, st) == dict_count > Len(st)

\* faulty variant: `if` for `while`, at most one set is popped
AutoClose_once(st, dict_count) ==
    IF dict_count < Len(st) THEN pop(st) ELSE st

\* faulty variant: closes the sets that are strictly deeper than dict_count
AutoClose_deeper(st, dict_count) ==
    IF dict_count + 1 < Len(st) THEN SubSeq(st, 1, dict_count + 1) ELSE st

\* while dict_count < len(dict_stack): dict_stack.pop()
RECURSIVE AutoClose(_, _)
AutoClose(st, dict_count) ==
    IF dict_count < Len(st) THEN AutoClose(pop(st), dict_count) ELSE st

\* faulty variant: the new set is stored in the root set
OpenSet_root(h, st, name) ==
    [heap |-> Append([h EXCEPT ![1] = DictSet(@, name, DictV(Len(h) + 1))], <<>>),
     stack |-> push(st, Len(h) + 1)]

\* faulty variant: a set of that name already in the parent is opened again
OpenSet_merge(h, st, name) ==
    IF HasKey(h[peek(st)], name) /\ Lookup(h[peek(st)], name).t = "dict"
    THEN [heap |-> h, stack |-> push(st, Lookup(h[peek(st)], name).id)]
    ELSE [heap |-> Append([h EXCEPT ![peek(st)] = DictSet(@, name, DictV(Len(h) + 1))],
                          <<>>),
          stack |-> push(st, Len(h) + 1)]

\* dict_stack.peek()[l] = {}; dict_stack.push(dict_stack.peek()[l])
\* the new dict object is heap[Len(heap) + 1]
OpenSet(h, st, name) ==
    [heap |-> Append([h EXCEPT ![peek(st)] = DictSet(@, name, DictV(Len(h) + 1))],
                     <<>>),
     stack |-> push(st, Len(h) + 1)]

\* l[:1] == "$": a set-open or a close line
SetLine(line) ==
    /\ NextLine(line, "set")
    /\ LET st == lstrip(line)
           dict_count == CountMarkers(st)
           rest == Drop(st, dict_count)
           closed == AutoClose(dict_stack, dict_count)
       IN IF TooDeep(dict_count, dict_stack)
          THEN /\ Raise(LangError(l_no, "accessing child set with no parent", <<>>))
               /\ UNCHANGED <<heap, dict_stack, attr>>
          ELSE IF rest = <<"!">>
          THEN /\ Continue
               /\ dict_stack' = closed
               /\ UNCHANGED <<heap, attr>>
          ELSE IF ~check_name(rest)
          THEN /\ Raise(LangError(l_no, "name is not a valid", rest))
               /\ dict_stack' = closed
               /\ UNCHANGED <<heap, attr>>
          ELSE /\ Continue
               /\ heap' = OpenSet(heap, closed, rest).heap
               /\ dict_stack' = OpenSet(heap, closed, rest).stack
               /\ attr' = <<>>
    /\ UNCHANGED <<family, encoding, as_dict>>

\* l[:1] == "@": @name:rest stores rest, @name makes name the pending attribute
AttrLine(line) ==
    /\ NextLine(line, "attr")
    /\ LET s == Drop(lstrip(line), 1)
           colon_idx == find(s, ":")
           name == SubSeq(s, 1, colon_idx - 1)
       IN IF colon_idx # 0
          THEN IF ~check_name(name)
               THEN /\ Raise(LangError(l_no, "name is not a valid", name))
                    /\ UNCHANGED <<heap, attr>>
               ELSE /\ Continue
                    /\ heap' = [heap EXCEPT ![peek(dict_stack)] =
                                   DictSet(@, name, StrV(Drop(s, colon_idx)))]
                    /\ attr' = <<>>
          ELSE IF ~check_name(s)
               THEN /\ Raise(LangError(l_no, "name is not a valid", s))
                    /\ UNCHANGED <<heap, attr>>
               ELSE /\ Continue
                    /\ attr' = s
                    /\ UNCHANGED heap
    /\ UNCHANGED <<family, encoding, dict_stack, as_dict>>

\* l[:2] == "~@" or l[:3] == ".~@": name, val, *others = l.split(":")
RefLine(line) ==
    /\ NextLine(line, "ref")
    /\ LET st == lstrip(line)
           local == Take(st, 3) = <<".", "~", "@">>
           s == IF local THEN Drop(st, 3) ELSE Drop(st, 2)
           parts == split(s, ":")
       IN IF Len(parts) < 2
          THEN /\ Raise(LangError(l_no, "expected ':'", <<>>))
               /\ UNCHANGED <<heap, attr>>
          ELSE IF Len(parts) > 2
          THEN /\ Raise(LangError(l_no, "invalid syntax", <<>>))
               /\ UNCHANGED <<heap, attr>>
          ELSE IF ~check_name(parts[1])
          THEN /\ Raise(LangError(l_no, "name is not a valid", parts[1]))
               /\ UNCHANGED <<heap, attr>>
          ELSE /\ Continue
               /\ heap' = [heap EXCEPT ![peek(dict_stack)] =
                              DictSet(@, parts[1],
                                      LangEval(split(parts[2], "."), local, l_no))]
               /\ attr' = <<>>
    /\ UNCHANGED <<family, encoding, dict_stack, as_dict>>

\* faulty variant: the newline is added to '&' lines too
TextOf_newline(st) ==
    (IF Take(st, 1) \in {<<"&">>, <<"\\">>} THEN Tail(st) ELSE st) \o <<"\n">>

\* if l[:1] == "&": l = l[1:]
\* else: if l[:1] == "\\": l = l[1:]; l += "\n"
TextOf(st) ==
    IF Take(st, 1) = <<"&">> THEN Tail(st)
    ELSE (IF Take(st, 1) = <<"\\">> THEN Tail(st) ELSE st) \o <<"\n">>

\* faulty variant: the text replaces what the key holds
AddText_replace(d, name, text) == DictSet(d, name, StrV(text))

\* try: d[attr] += l / except KeyError: d[attr] = l
\* str += str concatenates, LangEval += str is LangEval.__add__ (appends to
\* added_value and returns self); the caller excludes dict += str
AddText(d, name, text) ==
    IF ~HasKey(d, name) THEN DictSet(d, name, StrV(text))
    ELSE LET v == Lookup(d, name)
         IN IF v.t = "str" THEN DictSet(d, name, StrV(v.s \o text))
            ELSE DictSet(d, name, [v EXCEPT !.added_value = @ \o text])

\* any other line: continuation text of the pending attribute
TextLine(line) ==
    /\ NextLine(line, "text")
    /\ LET text == TextOf(lstrip(line))
           d == heap[peek(dict_stack)]
       IN IF attr = <<>>
          THEN /\ Raise(LangError(l_no, "text with no attribute", <<>>))
               /\ UNCHANGED heap
          ELSE IF HasKey(d, attr) /\ Lookup(d, attr).t = "dict"
          THEN /\ Raise(TypeError)   \* dict += str
               /\ UNCHANGED heap
          ELSE /\ Continue
               /\ heap' = [heap EXCEPT ![peek(dict_stack)] = AddText(@, attr, text)]
    /\ UNCHANGED <<family, encoding, dict_stack, attr, as_dict>>

\* ------------------------------------------------------ the resolution
\* class LangNode: the names getattr finds on every LangNode besides the
\* attributes set on it
NodeMethods == { <<"e", "m", "p", "t", "y">>, <<"g", "e", "t">> }

\* getattr(c_obj, v): an attribute set on the node, else a method of the
\* class, else AttributeError; no segment of the inputs names a str method,
\* so on a str it is AttributeError
GetAttr(c_obj, v) ==
    IF c_obj.t = "node" /\ HasKey(c_obj.attrs, v) THEN Lookup(c_obj.attrs, v)
    ELSE IF c_obj.t = "node" /\ v \in NodeMethods THEN MethodV
    ELSE [t |-> "AttributeError"]

\* c_obj + self.added_value: defined on str alone
AddValue(c_obj, added_value) ==
    IF c_obj.t = "str" THEN StrV(c_obj.s \o added_value) ELSE TypeError

\* LangEval.get_value from segment i on: c_obj is never a dict, since
\* _make_lang_obj passes LangNodes
RECURSIVE get_value_from(_, _, _)
get_value_from(v, c_obj, i) ==
    LET m == GetAttr(c_obj, v.branches[i])
    IN IF m.t = "AttributeError"
       THEN LangError(v.l_no, "the value is not valid", join(v.branches, "."))
       ELSE IF i = Len(v.branches) THEN AddValue(m, v.added_value)
       ELSE get_value_from(v, m, i + 1)

get_value(v, lang_obj) == get_value_from(v, lang_obj, 1)

\* v.get_value(this_node) if v.local else v.get_value(root_node)
Base(v, this_node, root_node) == IF v.local THEN this_node ELSE root_node

\* faulty variant: a reference is kept as it is
Resolve_keep(v, this_node, root_node) == v

\* setattr(this_node, i, v.get_value(...)): a str, or the exception raised
Resolve(v, this_node, root_node) ==
    get_value(v, NodeV(Base(v, this_node, root_node)))

\* setattr(this_node, i, ...) of an instance of a plain class: __dict__ must
\* be set to a dict and __class__ to a class, anything else is TypeError
ReservedAttrs ==
    { <<"_", "_", "d", "i", "c", "t", "_", "_">>,
      <<"_", "_", "c", "l", "a", "s", "s", "_", "_">> }

\* _make_lang_obj from entry i of dict d on: this_node holds the attributes
\* set so far; root_node is the root LangNode as the caller left it, and is
\* this_node itself in the outermost call.  Returns [kind |-> "node", val]
\* or the exception raised.
RECURSIVE make_lang_obj_from(_, _, _, _, _, _)
make_lang_obj_from(h, d, i, this_node, is_root, root_node) ==
    IF i > Len(h[d]) THEN [kind |-> "node", val |-> this_node]
    ELSE LET e == h[d][i]
             rn == IF is_root THEN this_node ELSE root_node
             r == IF e.v.t = "dict"
                  THEN LET sub == make_lang_obj_from(h, e.v.id, 1, <<>>, FALSE, rn)
                       IN IF sub.kind = "node" THEN NodeV(sub.val) ELSE sub
                  ELSE IF e.v.t = "eval" THEN Resolve(e.v, this_node, rn)
                  ELSE e.v
         IN IF "kind" \in DOMAIN r THEN r
            ELSE IF e.k \in ReservedAttrs THEN TypeError
            ELSE make_lang_obj_from(h, d, i + 1, DictSet(this_node, e.k, r),
                                    is_root, root_node)

make_lang_obj(h) == make_lang_obj_from(h, 1, 1, <<>>, TRUE, <<>>)

\* The raw tree as a value: the dict d with its child dicts expanded.
RECURSIVE Raw(_, _)
Raw(h, d) ==
    [i \in 1..Len(h[d]) |->
        IF h[d][i].v.t = "dict"
        THEN [k |-> h[d][i].k, v |-> [t |-> "dict", attrs |-> Raw(h, h[d][i].v.id)]]
        ELSE h[d][i]]

\* load, try block: with open(path, encoding=encoding) as f: f.read()
Open ==
    /\ pc = "open"
    /\ IF Decodable(file, encoding)
       THEN /\ pc' = "build"
            /\ decoded' = Decode(file, encoding)
            /\ result' = result
       ELSE /\ Raise(UnicodeDecodeError)
            /\ decoded' = decoded
    /\ UNCHANGED <<family, file, pass, encoding, heap, dict_stack, attr, lines, l_no,
                   as_dict, len_before, elementVars>>

\* faulty variant: every EncodingWarning opens the file again
Reopen_again ==
    /\ family = "file"
    /\ pc = "failed"
    /\ result.kind = "EncodingWarning"
    /\ pass' = pass + 1
    /\ encoding' = result.arg
    /\ IF Decodable(file, result.arg)
       THEN /\ pc' = "build"
            /\ decoded' = Decode(file, result.arg)
            /\ result' = Running
       ELSE /\ Raise(UnicodeDecodeError)
            /\ decoded' = decoded
    /\ heap' = << <<>> >>
    /\ dict_stack' = <<1>>
    /\ attr' = <<>>
    /\ lines' = <<>>
    /\ l_no' = 0
    /\ len_before' = 1
    /\ UNCHANGED <<family, file, as_dict, elementVars>>

\* load, except EncodingWarning as e: the file is opened again with
\* e.args[0] and loads runs again from its first line; an exception raised
\* in the except block is not caught
Reopen ==
    /\ family = "file"
    /\ pc = "failed"
    /\ pass = 1
    /\ result.kind = "EncodingWarning"
    /\ pass' = 2
    /\ encoding' = result.arg
    /\ IF Decodable(file, result.arg)
       THEN /\ pc' = "build"
            /\ decoded' = Decode(file, result.arg)
            /\ result' = Running
       ELSE /\ Raise(UnicodeDecodeError)
            /\ decoded' = decoded
    /\ heap' = << <<>> >>
    /\ dict_stack' = <<1>>
    /\ attr' = <<>>
    /\ lines' = <<>>
    /\ l_no' = 0
    /\ len_before' = 1
    /\ UNCHANGED <<family, file, as_dict, elementVars>>

\* loads: the text is over; return d if as_dict, else _make_lang_obj(d)
Return ==
    /\ pc = "build"
    /\ family = "file" => l_no = Len(decoded)
    /\ pc' = "done"
    /\ \E b \in BOOLEAN :
          /\ as_dict' = b
          /\ result' = IF b THEN [kind |-> "dict", val |-> Raw(heap, 1)]
                       ELSE make_lang_obj(heap)
    /\ UNCHANGED <<family, file, decoded, pass, encoding, heap, dict_stack, attr, lines,
                   l_no, len_before, elementVars>>

Next ==
    \/ \E line \in SetLines \cup RefLines \cup TextLines \cup MiscLines \cup NameLines
                    \cup RedeclLines \cup FileTextLines :
          \/ BlankLine(line)
          \/ EncodingLine(line)
          \/ CommentLine(line)
          \/ SetLine(line)
          \/ AttrLine(line)
          \/ RefLine(line)
          \/ TextLine(line)
    \/ Open
    \/ Reopen
    \/ Return

Spec == Init /\ [][Next]_vars

\* No text is being parsed.
LangIdle ==
    /\ family = "none"
    /\ file = <<>>
    /\ decoded = <<>>
    /\ pass = 1
    /\ encoding = Utf8
    /\ heap = << <<>> >>
    /\ dict_stack = <<1>>
    /\ attr = <<>>
    /\ lines = <<>>
    /\ l_no = 0
    /\ pc = "idle"
    /\ as_dict = FALSE
    /\ len_before = 1
    /\ result = Running

\* ========================================================== AniElement
\* The animations are objects of pgt.animations, not part of the sources
\* at hand.  What element.py relies on: start() sets running and enters the
\* name in current_ani ("the names of the animations that are currently
\* running"), update(t) shows a later frame when its time has come and
\* stops the animation after the last one, stop() clears running and takes
\* the name out of current_ani.
Running_(fr, n) == fr[n] > 0

RemoveName(cur, n) == SelectSeq(cur, LAMBDA m : m # n)

InSeq(cur, n) == \E i \in 1..Len(cur) : cur[i] = n

\* AniBase.start
StartFrame(fr, n) == [fr EXCEPT ![n] = 1]

StartName(cur, n) == IF InSeq(cur, n) THEN cur ELSE Append(cur, n)

\* AniBase.update on the animations of adv, the ones whose time has come
UpdateFrame(fr, adv) ==
    [n \in AniNames |->
        IF n \in adv THEN (IF fr[n] = AniLength THEN 0 ELSE fr[n] + 1) ELSE fr[n]]

\* AniElement.__init__: hidden defaults to False, no animation runs
InitAni ==
    /\ LangIdle
    /\ hidden = FALSE
    /\ call = "none"
    /\ present \in { S \cup {"walk"} : S \in SUBSET {"_hide", "_show"} }
    /\ frame = [n \in AniNames |-> 0]
    /\ current_ani = <<>>
    /\ is_hiding = FALSE
    /\ shown = FALSE
    /\ MouseIdle
    /\ RotIdle
    /\ GuiIdle

\* AniElement.show: self.hidden = False; self._show.start(), AttributeError
\* passed over
show ==
    /\ call' = "show"
    /\ hidden' = FALSE
    /\ shown' = TRUE
    /\ IF "_show" \in present
       THEN /\ frame' = StartFrame(frame, "_show")
            /\ current_ani' = StartName(current_ani, "_show")
       ELSE UNCHANGED <<frame, current_ani>>
    /\ UNCHANGED <<present, is_hiding, mouseVars, rotVars, guiVars, langVars>>

\* AniElement.hide: self._hide.start(); self.is_hiding = True, and on
\* AttributeError self.hidden = True
hide ==
    /\ call' = "hide"
    /\ shown' = FALSE
    /\ IF "_hide" \in present
       THEN /\ frame' = StartFrame(frame, "_hide")
            /\ current_ani' = StartName(current_ani, "_hide")
            /\ is_hiding' = TRUE
            /\ hidden' = hidden
       ELSE /\ hidden' = TRUE
            /\ UNCHANGED <<frame, current_ani, is_hiding>>
    /\ UNCHANGED <<present, mouseVars, rotVars, guiVars, langVars>>

\* faulty variant: the running flag of '_hide' is not looked at
hide_flag_at_once(hiding, cur, fr) == hiding

\* update_ani: hide = self.is_hiding, set to False when '_hide' is among the
\* animations updated and is still running after its update
hide_flag(hiding, cur, fr) ==
    hiding /\ ~(InSeq(cur, "_hide") /\ Running_(fr, "_hide"))

\* AniElement.update_ani: update() on every animation of current_ani, then
\* if hide: self.hidden = True; self.is_hiding = False
update_ani ==
    /\ call' = "update_ani"
    /\ \E adv \in SUBSET {n \in AniNames : InSeq(current_ani, n)} :
          /\ frame' = UpdateFrame(frame, adv)
          /\ current_ani' = SelectSeq(current_ani, LAMBDA n : UpdateFrame(frame, adv)[n] > 0)
          /\ IF hide_flag(is_hiding, current_ani, UpdateFrame(frame, adv))
             THEN hidden' = TRUE /\ is_hiding' = FALSE
             ELSE UNCHANGED <<hidden, is_hiding>>
    /\ UNCHANGED <<present, shown, mouseVars, rotVars, guiVars, langVars>>

\* element.<name>.start(): an animation started by the program
start_ani(n) ==
    /\ n \in present
    /\ call' = "start"
    /\ frame' = StartFrame(frame, n)
    /\ current_ani' = StartName(current_ani, n)
    /\ UNCHANGED <<hidden, present, is_hiding, shown, mouseVars, rotVars, guiVars,
                   langVars>>

\* element.<name>.stop(): an animation stopped by the program
stop_ani(n) ==
    /\ Running_(frame, n)
    /\ call' = "stop"
    /\ frame' = [frame EXCEPT ![n] = 0]
    /\ current_ani' = RemoveName(current_ani, n)
    /\ UNCHANGED <<hidden, present, is_hiding, shown, mouseVars, rotVars, guiVars,
                   langVars>>

NextAni ==
    \/ show
    \/ hide
    \/ update_ani
    \/ \E n \in AniNames : start_ani(n)
    \/ \E n \in AniNames : stop_ani(n)

SpecAni == InitAni /\ [][NextAni]_vars

\* ============================================= MouseInteractionElement
\* The cursor with respect to self.rect: "out" when rect.collidepoint fails,
\* "edge" on the left or top border (collidepoint holds, ul < pos fails),
\* "in" strictly inside.
Zones == {"out", "edge", "in"}

\* self.collide_point(new_pos): self.rect.collidepoint
collide_point(z) == z \in {"edge", "in"}

\* self.ul < self.get_mouse_pos() < self.dr: Pos.__lt__ on both coordinates
StrictlyInside(z) == z = "in"

\* any(pygame.mouse.get_pressed())
AnyPressed(p) == \E b \in 1..3 : p[b]

\* MouseInteractionElement.__init__
InitMouse ==
    /\ LangIdle
    /\ hidden = FALSE
    /\ call = "none"
    /\ AniIdle
    /\ RotIdle
    /\ GuiIdle
    /\ zone \in Zones
    /\ pressed \in [1..3 -> BOOLEAN]
    /\ prev_hovered = FALSE
    /\ keep_clicked = FALSE
    /\ hovered_ret = FALSE
    /\ clicked_ret = NoButton
    /\ entered_held = FALSE

\* hovered, the element shown: the flags <<__prev_hovered, __keep_clicked>>
\* after the if / elif
hovered_flags(prev, keep, z, p) ==
    IF ~AnyPressed(p) /\ collide_point(z) THEN <<TRUE, FALSE>>
    ELSE IF ~collide_point(z) THEN <<FALSE, FALSE>>
    ELSE <<prev, keep>>

\* What a poll makes of the history: it has seen the cursor inside with no
\* button pressed, unless the element is hidden.
SeenBy(held) ==
    IF ~hidden /\ collide_point(zone) /\ ~AnyPressed(pressed) THEN FALSE ELSE held

\* the property hovered
poll_hovered ==
    /\ call' = "hovered"
    /\ IF hidden
       THEN /\ hovered_ret' = FALSE
            /\ UNCHANGED <<prev_hovered, keep_clicked>>
       ELSE /\ hovered_ret' = collide_point(zone)
            /\ prev_hovered' = hovered_flags(prev_hovered, keep_clicked, zone, pressed)[1]
            /\ keep_clicked' = hovered_flags(prev_hovered, keep_clicked, zone, pressed)[2]
    /\ entered_held' = SeenBy(entered_held)
    /\ UNCHANGED <<hidden, zone, pressed, clicked_ret, aniVars, rotVars, guiVars, langVars>>

\* the property clicked: it reads hovered first
poll_clicked ==
    /\ call' = "clicked"
    /\ LET flags == IF hidden THEN <<prev_hovered, keep_clicked>>
                    ELSE hovered_flags(prev_hovered, keep_clicked, zone, pressed)
           h == ~hidden /\ collide_point(zone)
       IN IF ~h \/ ~StrictlyInside(zone) \/ ~(flags[1] \/ flags[2])
          THEN /\ clicked_ret' = NoButton
               /\ prev_hovered' = flags[1]
               /\ keep_clicked' = flags[2]
          ELSE /\ clicked_ret' = pressed
               /\ prev_hovered' = FALSE
               /\ keep_clicked' = TRUE
    /\ entered_held' = SeenBy(entered_held)
    /\ UNCHANGED <<hidden, zone, pressed, hovered_ret, aniVars, rotVars, guiVars, langVars>>

\* The cursor moves to the zone z.
move(z) ==
    /\ z # zone
    /\ call' = "none"
    /\ zone' = z
    /\ entered_held' = IF z = "out" THEN FALSE
                       ELSE IF zone = "out" THEN AnyPressed(pressed)
                       ELSE entered_held
    /\ UNCHANGED <<hidden, pressed, prev_hovered, keep_clicked, hovered_ret,
                   clicked_ret, aniVars, rotVars, guiVars, langVars>>

\* A mouse button goes down or up.
button(b) ==
    /\ call' = "none"
    /\ pressed' = [pressed EXCEPT ![b] = ~@]
    /\ UNCHANGED <<hidden, zone, prev_hovered, keep_clicked, hovered_ret,
                   clicked_ret, entered_held, aniVars, rotVars, guiVars, langVars>>

\* Element.show / Element.hide
show_hide ==
    /\ call' = IF hidden THEN "show" ELSE "hide"
    /\ hidden' = ~hidden
    /\ UNCHANGED <<mouseVars, aniVars, rotVars, guiVars, langVars>>

NextMouse ==
    \/ poll_hovered
    \/ poll_clicked
    \/ \E z \in Zones : move(z)
    \/ \E b \in 1..3 : button(b)
    \/ show_hide

SpecMouse == InitMouse /\ [][NextMouse]_vars

\* ====================================================== Element.rotate
\* The angles given to rotate and to the rotation argument of Element.
Angles == { 45 * k : k \in (0 - MaxTurn)..MaxTurn }

\* rotate: angle += self._rot if not abs_ else 0
rotate_angle(r, a, b) == IF b THEN a ELSE a + r

\* rotate: if angle != 0: ... self._rot = angle; then self._rot %= 360
rotate_rot(r, a, b) ==
    IF rotate_angle(r, a, b) # 0 THEN rotate_angle(r, a, b) % 360 ELSE r % 360

\* rotate: the image is the copy of the backup, turned by angle when
\* angle != 0 (pygame.transform.rotate / rotozoom)
rotate_image(r, a, b) == rotate_angle(r, a, b) % 360

\* Element.__init__ with an image: self._rot = 0, then rotate(rotation) when
\* rotation != 0, with the image as its own backup
InitRot ==
    /\ LangIdle
    /\ hidden = FALSE
    /\ call = "none"
    /\ AniIdle
    /\ MouseIdle
    /\ GuiIdle
    /\ \E rotation \in Angles :
          /\ rot = rotate_rot(0, rotation, FALSE)
          /\ image_rot = rotate_image(0, rotation, FALSE)
          /\ backup = (rotation # 0)
          /\ angle = rotation
          /\ abs_ = FALSE

\* Element.rotate(angle, abs_)
rotate(a, b) ==
    /\ call' = "rotate"
    /\ angle' = a
    /\ abs_' = b
    /\ backup' = TRUE
    /\ image_rot' = rotate_image(rot, a, b)
    /\ rot' = rotate_rot(rot, a, b)
    /\ UNCHANGED <<hidden, aniVars, mouseVars, guiVars, langVars>>

NextRot == \E a \in Angles, b \in BOOLEAN : rotate(a, b)

SpecRot == InitRot /\ [][NextRot]_vars

\* ========================================================== GUIElement
Sizes == [w : 0..MaxSize, h : 0..MaxSize]

Paddings == [x : 0..MaxPad, y : 0..MaxPad]

\* GUIElement.size (getter): the rect's size plus padding_ul plus padding_dr
size(sz) ==
    [w |-> sz.w + padding_ul.x + padding_dr.x,
     h |-> sz.h + padding_ul.y + padding_dr.y]

\* Element.w (setter): self.size = (round(value), self.h), self.h being
\* self.size.h, and GUIElement.size (setter): self.rect.size = round(Size(value))
w_setter(sz, value) == [w |-> value, h |-> size(sz).h]

\* Element.h (setter): self.size = (self.w, round(value))
h_setter(sz, value) == [w |-> size(sz).w, h |-> value]

\* GUIElement.draw: the width set from max_size and rel_size.w, then raised
\* to base_size.w when self.w is below it
draw_w(sz, max_size) ==
    IF rel_size.w = "None" THEN sz
    ELSE IF size(w_setter(sz, max_size.w)).w < base_size.w
    THEN w_setter(w_setter(sz, max_size.w), base_size.w)
    ELSE w_setter(sz, max_size.w)

\* GUIElement.draw: the same for the height
draw_h(sz, max_size) ==
    IF rel_size.h = "None" THEN sz
    ELSE IF size(h_setter(sz, max_size.h)).h < base_size.h
    THEN h_setter(h_setter(sz, max_size.h), base_size.h)
    ELSE h_setter(sz, max_size.h)

\* No side of the rect is beyond the largest the model follows.
Fits(sz) == sz.w <= MaxDim /\ sz.h <= MaxDim

\* GUIElement.__init__: base_size is the size given, the padding the four
\* arguments
InitGui ==
    /\ LangIdle
    /\ hidden = FALSE
    /\ call = "none"
    /\ AniIdle
    /\ MouseIdle
    /\ RotIdle
    /\ rect_size \in Sizes
    /\ base_size = rect_size
    /\ padding_ul \in Paddings
    /\ padding_dr \in Paddings
    /\ rel_size \in [w : {"None", "full"}, h : {"None", "full"}]

\* e.w = value
assign_w(value) ==
    /\ Fits(w_setter(rect_size, value))
    /\ call' = "w"
    /\ rect_size' = w_setter(rect_size, value)
    /\ UNCHANGED <<padding_ul, padding_dr, base_size, rel_size, hidden, aniVars,
                   mouseVars, rotVars, langVars>>

\* e.h = value
assign_h(value) ==
    /\ Fits(h_setter(rect_size, value))
    /\ call' = "h"
    /\ rect_size' = h_setter(rect_size, value)
    /\ UNCHANGED <<padding_ul, padding_dr, base_size, rel_size, hidden, aniVars,
                   mouseVars, rotVars, langVars>>

\* GUIElement.draw, max_size the size of the layout or of the window
draw(max_size) ==
    /\ Fits(draw_h(draw_w(rect_size, max_size), max_size))
    /\ call' = "draw"
    /\ rect_size' = draw_h(draw_w(rect_size, max_size), max_size)
    /\ UNCHANGED <<padding_ul, padding_dr, base_size, rel_size, hidden, aniVars,
                   mouseVars, rotVars, langVars>>

NextGui ==
    \/ \E value \in 0..MaxSize : assign_w(value)
    \/ \E value \in 0..MaxSize : assign_h(value)
    \/ \E max_size \in Sizes : draw(max_size)

SpecGui == InitGui /\ [][NextGui]_vars

\* ============================================================== claims
\* A step of the loop of _make_lang_dict: the line l' was processed.
LineStep == l_no' = l_no + 1

\* The '$' markers of a line, and what follows them.
Markers(line) == CountMarkers(lstrip(line))

AfterMarkers(line) == Drop(lstrip(line), Markers(line))

\* The number of sets open: the stack without the root.
OpenDepth(st) == Len(st) - 1

\* C1: a set-open line with n markers and a valid name, processed while k sets
\* are open and 1 <= n <= k + 1, closes every open set of depth >= n, creates
\* a new empty set under that name in the set open at depth n - 1 and pushes
\* it, so that n sets are open afterwards; nothing else changes in the tree.
C1_SetOpenAutoCloses ==
    [][ ( /\ LineStep
          /\ Kind(l') = "set"
          /\ check_name(AfterMarkers(l'))
          /\ 1 <= Markers(l')
          /\ Markers(l') <= OpenDepth(dict_stack) + 1 )
        => LET n == Markers(l')
               parent == dict_stack[n]
               new == peek(dict_stack')
           IN /\ pc' = "build"
              /\ OpenDepth(dict_stack') = n
              /\ SubSeq(dict_stack', 1, n) = SubSeq(dict_stack, 1, n)
              /\ new \notin 1..Len(heap)
              /\ heap'[new] = <<>>
              /\ HasKey(heap'[parent], AfterMarkers(l'))
              /\ Lookup(heap'[parent], AfterMarkers(l')) = DictV(new)
              /\ \A d \in 1..Len(heap) : d # parent => heap'[d] = heap[d]
      ]_vars

\* C1 witness: `$a`, `$$b`, `$c` has built {a: {b: {}}, c: {}} with c open.
C1_Witness ==
    /\ pc = "build"
    /\ l = <<"$", "c">>
    /\ OpenDepth(dict_stack) = 1
    /\ Raw(heap, 1) =
         << [k |-> <<"a">>,
             v |-> [t |-> "dict",
                    attrs |-> << [k |-> <<"b">>, v |-> [t |-> "dict", attrs |-> <<>>]] >>]],
            [k |-> <<"c">>, v |-> [t |-> "dict", attrs |-> <<>>]] >>
    /\ heap[peek(dict_stack)] = <<>>

\* C2: a set-open line with more markers than the open depth + 1 fails with
\* 'accessing child set with no parent', whether its name is valid or not,
\* and creates and closes no set.
C2_TooDeepAlwaysErrors ==
    [][ ( /\ LineStep
          /\ Kind(l') = "set"
          /\ AfterMarkers(l') # <<"!">>
          /\ Markers(l') > OpenDepth(dict_stack) + 1 )
        => /\ pc' = "failed"
           /\ result'.kind = "LangError"
           /\ result'.msg = "accessing child set with no parent"
           /\ result'.line = l_no + 1
           /\ heap' = heap
           /\ dict_stack' = dict_stack
      ]_vars

\* C2 witness: `$$$1` (an invalid name) with one set open was refused for its
\* depth.
C2_Witness ==
    /\ pc = "failed"
    /\ l = <<"$", "$", "$", "1">>
    /\ ~check_name(AfterMarkers(l))
    /\ OpenDepth(dict_stack) = 1
    /\ result.kind = "LangError"
    /\ result.msg = "accessing child set with no parent"

\* C10 as claimed: a close line of n markers processed while k >= n sets are
\* open closes exactly n sets and leaves k - n open.
C10_ClosesExactlyN ==
    [][ ( /\ LineStep
          /\ Kind(l') = "set"
          /\ AfterMarkers(l') = <<"!">>
          /\ OpenDepth(dict_stack) >= Markers(l') )
        => OpenDepth(dict_stack') = OpenDepth(dict_stack) - Markers(l')
      ]_vars

\* C10 amended: a close line of n markers processed while k >= n sets are open
\* closes the open set of level n and every deeper one, k - n + 1 sets, and
\* leaves the n - 1 sets of lower level open.
C10_ClosesFromLevelN ==
    [][ ( /\ LineStep
          /\ Kind(l') = "set"
          /\ AfterMarkers(l') = <<"!">>
          /\ OpenDepth(dict_stack) >= Markers(l') )
        => /\ pc' = "build"
           /\ OpenDepth(dict_stack') = Markers(l') - 1
           /\ dict_stack' = SubSeq(dict_stack, 1, Markers(l'))
           /\ heap' = heap
      ]_vars

\* C10 witness: `$a`, `$$b`, `$!`: the close line of one marker has closed
\* both open sets.
C10_Witness ==
    /\ pc = "build"
    /\ l_no = 3
    /\ l = <<"$", "!">>
    /\ OpenDepth(dict_stack) = 0
    /\ Raw(heap, 1) =
         << [k |-> <<"a">>,
             v |-> [t |-> "dict",
                    attrs |-> << [k |-> <<"b">>, v |-> [t |-> "dict", attrs |-> <<>>]] >>]] >>

\* ------------------------------------------------- claims on references
\* loads returned the resolved tree.
Resolved == pc = "done" /\ ~as_dict /\ result.kind = "node"

\* loads ran the resolution (the build raised nothing, as_dict is false).
RanResolution == pc = "done" /\ ~as_dict

\* The references of the raw tree under dict d, from entry i on, in the order
\* of the resolution.
RECURSIVE Evals(_, _, _)
Evals(h, d, i) ==
    IF i > Len(h[d]) THEN <<>>
    ELSE (IF h[d][i].v.t = "eval" THEN <<h[d][i].v>>
          ELSE IF h[d][i].v.t = "dict" THEN Evals(h, h[d][i].v.id, 1)
          ELSE <<>>) \o Evals(h, d, i + 1)

\* What the raw tree declares at a dotted path from dict d: a value, or
\* "missing" when a segment names no set or attribute of the set reached.
RECURSIVE RawGet(_, _, _)
RawGet(h, d, path) ==
    IF ~HasKey(h[d], path[1]) THEN [t |-> "missing"]
    ELSE LET v == Lookup(h[d], path[1])
         IN IF Len(path) = 1 THEN v
            ELSE IF v.t = "dict" THEN RawGet(h, v.id, Tail(path))
            ELSE [t |-> "missing"]

\* The raw tree of the same text with every relative reference `.~@n:p`
\* written as the absolute reference `~@n:s.p`, s the path of its set.
RECURSIVE AbsoluteTwin(_, _, _, _)
AbsoluteTwin(h, d, s, i) ==
    IF i > Len(h[d]) THEN h
    ELSE LET e == h[d][i]
         IN IF e.v.t = "eval" /\ e.v.local
            THEN AbsoluteTwin(
                   [h EXCEPT ![d][i].v =
                       [e.v EXCEPT !.local = FALSE, !.branches = s \o @]],
                   d, s, i + 1)
            ELSE IF e.v.t = "dict"
            THEN AbsoluteTwin(AbsoluteTwin(h, e.v.id, Append(s, e.k), 1), d, s, i + 1)
            ELSE AbsoluteTwin(h, d, s, i + 1)

\* Every reference of the raw tree is relative, sits in a set below the root
\* and names a string attribute declared earlier in its own set.
RECURSIVE RelativeToEarlier(_, _, _, _)
RelativeToEarlier(h, d, is_root, i) ==
    IF i > Len(h[d]) THEN TRUE
    ELSE LET e == h[d][i]
         IN /\ e.v.t = "eval" =>
                 /\ ~is_root
                 /\ e.v.local
                 /\ Len(e.v.branches) = 1
                 /\ \E j \in 1..(i - 1) :
                       h[d][j].k = e.v.branches[1] /\ h[d][j].v.t = "str"
            /\ e.v.t = "dict" => RelativeToEarlier(h, e.v.id, FALSE, 1)
            /\ RelativeToEarlier(h, d, is_root, i + 1)

\* C3 as claimed: a relative reference `.~@n:p` declared in the set of path s
\* to an attribute p declared earlier in that set resolves to the same value
\* as the absolute reference `~@n:s.p` in its place.
C3_AbsoluteEqualsRelative ==
    ( /\ RanResolution
      /\ Evals(heap, 1, 1) # <<>>
      /\ RelativeToEarlier(heap, 1, TRUE, 1) )
    => make_lang_obj(AbsoluteTwin(heap, 1, <<>>, 1)) = result

\* C4 as claimed: an absolute reference declared in the root set, on the last
\* line, to a string attribute of a set declared and closed on earlier lines
\* resolves to that string, whatever name it is declared under.
C4_AbsoluteAfterTarget ==
    ( /\ RanResolution
      /\ Kind(l) = "ref"
      /\ OpenDepth(dict_stack) = 0
      /\ Len(Evals(heap, 1, 1)) = 1
      /\ LET v == Evals(heap, 1, 1)[1]
         IN /\ v.l_no = l_no - 1
            /\ ~v.local
            /\ Len(v.branches) > 1
            /\ RawGet(heap, 1, v.branches).t = "str" )
    => /\ result.kind = "node"
       /\ \E i \in 1..Len(heap[1]) :
             /\ heap[1][i].v.t = "eval"
             /\ Lookup(result.val, heap[1][i].k) =
                   RawGet(heap, 1, heap[1][i].v.branches)

\* C5 as claimed: when a segment of the dotted path of the only reference of the
\* text names no set or attribute of the set reached so far, loads fails with
\* a LangError that carries the full dotted path and the 1-based line of the
\* reference.
C5_MissingSegmentIsLangError ==
    ( /\ RanResolution
      /\ Len(Evals(heap, 1, 1)) = 1
      /\ RawGet(heap, 1, Evals(heap, 1, 1)[1].branches).t = "missing" )
    => /\ result.kind = "LangError"
       /\ result.arg = join(Evals(heap, 1, 1)[1].branches, ".")
       /\ result.line = Evals(heap, 1, 1)[1].l_no + 1

\* The resolved node mirrors the raw dict d: the same names, a LangNode for
\* each child set, a plain string for each attribute and each reference.
RECURSIVE SameShape(_, _, _)
SameShape(attrs, h, d) ==
    /\ Len(attrs) = Len(h[d])
    /\ \A i \in 1..Len(h[d]) :
          /\ HasKey(attrs, h[d][i].k)
          /\ LET a == Lookup(attrs, h[d][i].k)
             IN IF h[d][i].v.t = "dict"
                THEN a.t = "node" /\ SameShape(a.attrs, h, h[d][i].v.id)
                ELSE a.t = "str" /\ DOMAIN a = {"t", "s"}

\* C6: whenever loads returns a resolved tree, the tree has the set names and
\* the nesting of the raw tree, every leaf is a plain string and no deferred
\* reference remains.
C6_ResolvedTreeIsStrings == Resolved => SameShape(result.val, heap, 1)

\* C6 witness: `$a`, `@x:1`, `$!`, `~@y:a.x` returned {a: {x: "1"}, y: "1"}.
C6_Witness ==
    /\ Resolved
    /\ lines = << <<"$", "a">>, <<"@", "x", ":", "1">>, <<"$", "!">>,
                  <<"~", "@", "y", ":", "a", ".", "x">> >>
    /\ Lookup(heap[1], <<"y">>).t = "eval"
    /\ result.val =
         << [k |-> <<"a">>,
             v |-> NodeV(<< [k |-> <<"x">>, v |-> StrV(<<"1">>)] >>)],
            [k |-> <<"y">>, v |-> StrV(<<"1">>)] >>

\* ------------------------------------------------ claims on redeclaration
\* The set the build writes into.
Current == heap[peek(dict_stack)]

\* `@name`, no colon, was the line before: name is the pending attribute.
JustDeclared ==
    /\ pc = "build"
    /\ Kind(l) = "attr"
    /\ find(l, ":") = 0
    /\ attr = Drop(lstrip(l), 1)

\* The name and the rest of an inline `@name:rest` line.
InlineName(line) == SubSeq(Drop(lstrip(line), 1), 1, find(Drop(lstrip(line), 1), ":") - 1)

InlineRest(line) == Drop(Drop(lstrip(line), 1), find(Drop(lstrip(line), 1), ":"))

\* The name and the value of a reference line `~@name:val` or `.~@name:val`.
RefBody(line) ==
    IF Take(lstrip(line), 1) = <<".">> THEN Drop(lstrip(line), 3)
    ELSE Drop(lstrip(line), 2)

RefName(line) == split(RefBody(line), ":")[1]

RefVal(line) == split(RefBody(line), ":")[2]

\* C7 as claimed: redeclaring a name that holds a plain string replaces the
\* value: after `@x:v` the value is v, and the first text line after `@x`
\* leaves the value made of that line's text alone.
C7_RedeclareReplaces ==
    [][ /\ ( /\ LineStep
             /\ pc' = "build"
             /\ Kind(l') = "attr"
             /\ find(l', ":") # 0
             /\ HasKey(Current, InlineName(l'))
             /\ Lookup(Current, InlineName(l')).t = "str" )
           => Lookup(Current', InlineName(l')) = StrV(InlineRest(l'))
        /\ ( /\ LineStep
             /\ JustDeclared
             /\ Kind(l') = "text"
             /\ HasKey(Current, attr)
             /\ Lookup(Current, attr).t = "str" )
           => Lookup(Current', attr) = StrV(TextOf(lstrip(l')))
      ]_vars

\* The value at a dotted path of a resolved node, "missing" when there is none.
RECURSIVE NodeGet(_, _)
NodeGet(attrs, path) ==
    IF ~HasKey(attrs, path[1]) THEN [t |-> "missing"]
    ELSE LET v == Lookup(attrs, path[1])
         IN IF Len(path) = 1 THEN v
            ELSE IF v.t = "node" THEN NodeGet(v.attrs, Tail(path))
            ELSE [t |-> "missing"]

\* In the resolved tree every reference of the raw dict d holds the value of
\* its target followed by its accumulated text.
RECURSIVE TargetThenAdded(_, _, _, _)
TargetThenAdded(root_attrs, attrs, h, d) ==
    \A i \in 1..Len(h[d]) :
       LET e == h[d][i]
       IN /\ e.v.t = "eval" =>
               LET target == NodeGet(IF e.v.local THEN attrs ELSE root_attrs,
                                     e.v.branches)
               IN /\ target.t = "str"
                  /\ Lookup(attrs, e.k) = StrV(target.s \o e.v.added_value)
          /\ e.v.t = "dict" =>
               TargetThenAdded(root_attrs, Lookup(attrs, e.k).attrs, h, e.v.id)

\* C8: when the pending attribute `@name` names a key that holds a deferred
\* reference, each text line is appended to the reference's accumulator, in
\* line order, and the resolved value of a reference is the value of its
\* target followed by the accumulated text.
C8_TextAppendsToReference ==
    /\ [][ ( /\ LineStep
             /\ Kind(l') = "text"
             /\ attr # <<>>
             /\ HasKey(Current, attr)
             /\ Lookup(Current, attr).t = "eval" )
           => /\ pc' = "build"
              /\ Lookup(Current', attr) =
                    [Lookup(Current, attr) EXCEPT
                        !.added_value = @ \o TextOf(lstrip(l'))]
         ]_vars
    /\ [](Resolved => TargetThenAdded(result.val, result.val, heap, 1))

\* C8 witness: `@x:1`, `~@y:x`, `@y`, `t`, `&t` returned y = "1t\nt".
C8_Witness ==
    /\ Resolved
    /\ lines = << <<"@", "x", ":", "1">>, <<"~", "@", "y", ":", "x">>,
                  <<"@", "y">>, <<"t">>, <<"&", "t">> >>
    /\ Lookup(heap[1], <<"y">>).added_value = <<"t", "\n", "t">>
    /\ Lookup(result.val, <<"y">>) = StrV(<<"1", "t", "\n", "t">>)

\* C9 as claimed: every assignment to a key that holds a deferred reference
\* appends to the reference's accumulator: after an inline `@a:text` or a
\* `~@a:text` declaration the key holds the same reference with text appended.
C9_AssignAppends ==
    [][ /\ ( /\ LineStep
             /\ pc' = "build"
             /\ Kind(l') = "attr"
             /\ find(l', ":") # 0
             /\ HasKey(Current, InlineName(l'))
             /\ Lookup(Current, InlineName(l')).t = "eval" )
           => Lookup(Current', InlineName(l')) =
                 [Lookup(Current, InlineName(l')) EXCEPT
                     !.added_value = @ \o InlineRest(l')]
        /\ ( /\ LineStep
             /\ pc' = "build"
             /\ Kind(l') = "ref"
             /\ HasKey(Current, RefName(l'))
             /\ Lookup(Current, RefName(l')).t = "eval" )
           => Lookup(Current', RefName(l')) =
                 [Lookup(Current, RefName(l')) EXCEPT
                     !.added_value = @ \o RefVal(l')]
      ]_vars

\* C9 amended: an assignment to a key that holds a deferred reference replaces
\* the reference: after an inline `@a:text` the key holds the plain string
\* text, after `~@a:path` or `.~@a:path` a new reference to path, declared on
\* that line, with an empty accumulator.
C9_AssignReplaces ==
    [][ /\ ( /\ LineStep
             /\ pc' = "build"
             /\ Kind(l') = "attr"
             /\ find(l', ":") # 0
             /\ HasKey(Current, InlineName(l'))
             /\ Lookup(Current, InlineName(l')).t = "eval" )
           => Lookup(Current', InlineName(l')) = StrV(InlineRest(l'))
        /\ ( /\ LineStep
             /\ pc' = "build"
             /\ Kind(l') = "ref"
             /\ HasKey(Current, RefName(l'))
             /\ Lookup(Current, RefName(l')).t = "eval" )
           => Lookup(Current', RefName(l')) =
                 [t |-> "eval", branches |-> split(RefVal(l'), "."),
                  local |-> Take(lstrip(l'), 1) = <<".">>, l_no |-> l_no,
                  added_value |-> <<>>]
      ]_vars

\* C9 witness: `@x:1`, `~@y:x`, `@y:t` has left y the plain string "t".
C9_Witness ==
    /\ pc = "build"
    /\ lines = << <<"@", "x", ":", "1">>, <<"~", "@", "y", ":", "x">>,
                  <<"@", "y", ":", "t">> >>
    /\ Lookup(heap[1], <<"y">>) = StrV(<<"t">>)

\* A close line: '$' markers followed by '!' alone.
IsClose(line) == Kind(line) = "set" /\ AfterMarkers(line) = <<"!">>

\* A set-open line: '$' markers followed by anything but '!' alone.
IsOpen(line) == Kind(line) = "set" /\ AfterMarkers(line) # <<"!">>

\* C11 as claimed: a close line with n markers processed while fewer than n
\* sets are open is an error; `$!` with no set open fails.
C11_CloseBeyondOpenIsError ==
    [][ ( /\ LineStep
          /\ IsClose(l')
          /\ Markers(l') > OpenDepth(dict_stack) )
        => /\ pc' = "failed"
           /\ result'.kind = "LangError"
      ]_vars

\* C12 as claimed: a close line resets the pending attribute, so that a text
\* line that follows it with no attribute declaration in between is rejected
\* with 'text with no attribute'.
C12_CloseResetsAttr ==
    [][ /\ (LineStep /\ IsClose(l') /\ pc' = "build") => attr' = <<>>
        /\ ( /\ LineStep
             /\ pc = "build"
             /\ IsClose(l)
             /\ Kind(l') = "text" )
           => /\ pc' = "failed"
              /\ result' = LangError(l_no, "text with no attribute", <<>>)
              /\ heap' = heap
      ]_vars

\* C13: a close line with n markers, processed while the set of level n is
\* open, closes that set and every deeper one: the sets of the levels below n
\* stay open, n - 1 sets are open afterwards and nothing changes in the tree;
\* an attribute declared next is written into the set of level n - 1.
C13_CloseLeavesLowerLevels ==
    [][ /\ ( /\ LineStep
             /\ IsClose(l')
             /\ OpenDepth(dict_stack) >= Markers(l') )
           => /\ pc' = "build"
              /\ OpenDepth(dict_stack') = Markers(l') - 1
              /\ dict_stack' = SubSeq(dict_stack, 1, Markers(l'))
              /\ heap' = heap
        /\ ( /\ LineStep
             /\ pc = "build"
             /\ IsClose(l)
             /\ len_before > Markers(l)
             /\ Kind(l') = "attr"
             /\ pc' = "build"
             /\ find(l', ":") # 0 )
           => /\ Len(dict_stack) = Markers(l)
              /\ Lookup(heap'[dict_stack[Markers(l)]], InlineName(l')) =
                    StrV(InlineRest(l'))
              /\ \A d \in 1..Len(heap) :
                    d # dict_stack[Markers(l)] => heap'[d] = heap[d]
      ]_vars

\* C13 witness: `$a`, `$$b`, `$$!`, `@x:1` has written x into a, the set of
\* level 1, next to b.
C13_Witness ==
    /\ pc = "build"
    /\ lines = << <<"$", "a">>, <<"$", "$", "b">>, <<"$", "$", "!">>,
                  <<"@", "x", ":", "1">> >>
    /\ OpenDepth(dict_stack) = 1
    /\ Raw(heap, 1) =
         << [k |-> <<"a">>,
             v |-> [t |-> "dict",
                    attrs |-> << [k |-> <<"b">>, v |-> [t |-> "dict", attrs |-> <<>>]],
                                 [k |-> <<"x">>, v |-> StrV(<<"1">>)] >>]] >>

\* C14 as claimed: a set opened with n markers and closed with n markers on
\* the next line leaves the stack as high as it was before the open, also
\* when the open closed deeper sets.
C14_OpenCloseRestoresHeight ==
    [][ ( /\ LineStep
          /\ pc = "build"
          /\ IsOpen(l)
          /\ IsClose(l')
          /\ Markers(l') = Markers(l) )
        => /\ pc' = "build"
           /\ Len(dict_stack') = len_before
      ]_vars

\* C14 amended: a set opened with n markers and closed with n markers on the
\* next line leaves n - 1 sets open and the new set empty; that is the height
\* the stack had before the open exactly when the open closed no set
\* (n - 1 sets were open before it).
C14_OpenCloseLeavesParent ==
    [][ ( /\ LineStep
          /\ pc = "build"
          /\ IsOpen(l)
          /\ IsClose(l')
          /\ Markers(l') = Markers(l) )
        => /\ pc' = "build"
           /\ OpenDepth(dict_stack') = Markers(l) - 1
           /\ dict_stack' = pop(dict_stack)
           /\ heap'[peek(dict_stack)] = <<>>
           /\ (Len(dict_stack') = len_before) <=> (Markers(l) = len_before)
      ]_vars

\* C14 witness: `$a`, `$$b`, `$c`, `$!`: the open of c closed a and b, the
\* close of c leaves no set open where two were open before the open.
C14_Witness ==
    /\ pc = "build"
    /\ lines = << <<"$", "a">>, <<"$", "$", "b">>, <<"$", "c">>, <<"$", "!">> >>
    /\ dict_stack = <<1>>
    /\ len_before = 2

\* An identifier: a letter or '_' followed by letters, digits and '_'.
IsIdentifier(s) ==
    /\ Len(s) >= 1
    /\ s[1] \in NameStart
    /\ \A i \in 2..Len(s) : s[i] \in NameChar

HasColon(s) == \E i \in 1..Len(s) : s[i] = ":"

\* The position of the first colon of s.
ColonAt(s) == CHOOSE i \in 1..Len(s) : s[i] = ":" /\ \A j \in 1..(i - 1) : s[j] # ":"

\* A line after its leading whitespace and n more characters.
Body(line, n) == SubSeq(lstrip(line), n + 1, Len(lstrip(line)))

IsEscaped(line) == Len(lstrip(line)) >= 1 /\ lstrip(line)[1] = "\\"

\* What a text line without escape gives: its left-trimmed content and a
\* newline, or what follows '&' and no newline.
Plain(line) ==
    IF lstrip(line)[1] = "&" THEN Body(line, 1) ELSE lstrip(line) \o <<"\n">>

C16_InlineStoresRest ==
    [][ /\ ( /\ LineStep
             /\ Kind(l') = "attr"
             /\ HasColon(Body(l', 1))
             /\ IsIdentifier(SubSeq(Body(l', 1), 1, ColonAt(Body(l', 1)) - 1)) )
           => LET body == Body(l', 1)
                  name == SubSeq(body, 1, ColonAt(body) - 1)
                  rest == SubSeq(body, ColonAt(body) + 1, Len(body))
              IN /\ pc' = "build"
                 /\ dict_stack' = dict_stack
                 /\ HasKey(Current', name)
                 /\ Lookup(Current', name) = StrV(rest)
                 /\ attr' = <<>>
        /\ ( /\ LineStep
             /\ pc = "build"
             /\ Kind(l) = "attr"
             /\ HasColon(Body(l, 1))
             /\ Kind(l') = "text" )
           => /\ pc' = "failed"
              /\ result' = LangError(l_no, "text with no attribute", <<>>)
              /\ heap' = heap
      ]_vars

\* C16 witness: `@x:1:2` has stored "1:2", and the text line after it failed.
C16_Witness ==
    /\ pc = "failed"
    /\ lines = << <<"@", "x", ":", "1", ":", "2">>, <<"t">> >>
    /\ Raw(heap, 1) = << [k |-> <<"x">>, v |-> StrV(<<"1", ":", "2">>)] >>
    /\ result = LangError(1, "text with no attribute", <<>>)

\* C17 as claimed: a line whose first non-blank character is a backslash is
\* text, whatever follows the backslash: what follows it and a newline are
\* appended to the pending attribute ('text with no attribute' when none is
\* pending), the stack and the pending attribute stay as they are.
C17_EscapedLineIsText ==
    [][ ( /\ LineStep
          /\ IsEscaped(l') )
        => /\ Kind(l') = "text"
           /\ dict_stack' = dict_stack
           /\ attr' = attr
           /\ IF attr = <<>>
              THEN /\ pc' = "failed"
                   /\ result' = LangError(l_no, "text with no attribute", <<>>)
                   /\ heap' = heap
              ELSE LET text == Body(l', 1) \o <<"\n">>
                   IN /\ pc' = "build"
                      /\ HasKey(Current', attr)
                      /\ IF ~HasKey(Current, attr)
                         THEN Lookup(Current', attr) = StrV(text)
                         ELSE IF Lookup(Current, attr).t = "str"
                         THEN Lookup(Current', attr) =
                                 StrV(Lookup(Current, attr).s \o text)
                         ELSE /\ Lookup(Current, attr).t = "eval"
                              /\ Lookup(Current', attr) =
                                    [Lookup(Current, attr) EXCEPT
                                        !.added_value = @ \o text]
      ]_vars

IsBlankOrComment(line) ==
    \/ lstrip(line) = <<>>
    \/ Take(lstrip(line), 2) = <<":", ":">>

\* C18: a blank line and a comment line change nothing: the stack, the
\* pending attribute and the tree stay as they are, so a text line after one
\* still extends the attribute that was pending before it.
C18_BlankAndCommentChangeNothing ==
    [][ /\ ( /\ LineStep
             /\ IsBlankOrComment(l') )
           => /\ pc' = "build"
              /\ result' = result
              /\ heap' = heap
              /\ dict_stack' = dict_stack
              /\ attr' = attr
        /\ ( /\ LineStep
             /\ pc = "build"
             /\ lines # <<>>
             /\ IsBlankOrComment(l)
             /\ Kind(l') = "text"
             /\ attr # <<>>
             /\ ~HasKey(Current, attr) )
           => /\ pc' = "build"
              /\ attr' = attr
              /\ Lookup(Current', attr) = StrV(TextOf(lstrip(l')))
      ]_vars

\* C18 witness: `@x`, `::c`, `t` has left x == "t\n".
C18_Witness ==
    /\ pc = "build"
    /\ lines = << <<"@", "x">>, <<":", ":", "c">>, <<"t">> >>
    /\ Raw(heap, 1) = << [k |-> <<"x">>, v |-> StrV(<<"t", "\n">>)] >>

\* The number of colons of a line.
ColonCount(line) == Cardinality({i \in 1..Len(line) : line[i] = ":"})

\* A reference declaration after its `~@` or `.~@`.
AfterRefMark(line) == IF lstrip(line)[1] = "." THEN Body(line, 3) ELSE Body(line, 2)

UpToColon(s) == IF HasColon(s) THEN SubSeq(s, 1, ColonAt(s) - 1) ELSE s

\* A line that declares a name, and the name it declares.
IsDecl(line) == IsOpen(line) \/ Kind(line) \in {"attr", "ref"}

DeclName(line) ==
    IF Kind(line) = "set" THEN AfterMarkers(line)
    ELSE IF Kind(line) = "attr" THEN UpToColon(Body(line, 1))
    ELSE UpToColon(AfterRefMark(line))

\* C19 as claimed: every set-open, attribute declaration and reference
\* declaration whose name is empty or is not an identifier is rejected with
\* the error that names the identifier, and nothing is stored.
C19_BadNameIsNamed ==
    [][ ( /\ LineStep
          /\ IsDecl(l')
          /\ ~IsIdentifier(DeclName(l')) )
        => /\ pc' = "failed"
           /\ result' = LangError(l_no, "name is not a valid", DeclName(l'))
           /\ heap' = heap
      ]_vars

\* C19 amended: every set-open, attribute declaration and reference
\* declaration whose name is empty or is not an identifier is rejected with a
\* LangError and nothing is stored; the error names the identifier unless an
\* earlier check of the line fails: a set-open more than one level below the
\* open sets gets 'accessing child set with no parent', a reference
\* declaration without exactly one ':' gets "expected ':'" or 'invalid syntax'.
C19_BadNameIsRejected ==
    [][ ( /\ LineStep
          /\ IsDecl(l')
          /\ ~IsIdentifier(DeclName(l')) )
        => /\ pc' = "failed"
           /\ heap' = heap
           /\ result' =
                IF IsOpen(l') /\ Markers(l') > OpenDepth(dict_stack) + 1
                THEN LangError(l_no, "accessing child set with no parent", <<>>)
                ELSE IF Kind(l') = "ref" /\ ColonCount(l') = 0
                THEN LangError(l_no, "expected ':'", <<>>)
                ELSE IF Kind(l') = "ref" /\ ColonCount(l') > 1
                THEN LangError(l_no, "invalid syntax", <<>>)
                ELSE LangError(l_no, "name is not a valid", DeclName(l'))
      ]_vars

\* C19 witness: after `$a`, the line `@1:v` was rejected with the error that
\* names '1', and a holds nothing.
C19_Witness ==
    /\ pc = "failed"
    /\ lines = << <<"$", "a">>, <<"@", "1", ":", "v">> >>
    /\ result = LangError(1, "name is not a valid", <<"1">>)
    /\ Raw(heap, 1) = << [k |-> <<"a">>, v |-> [t |-> "dict", attrs |-> <<>>]] >>

\* C20: a reference declaration (`~@` or `.~@`) with no ':' fails with
\* "expected ':'", one with more than one ':' fails with 'invalid syntax',
\* whatever its name; in both cases the tree stays as it was.
C20_RefColonCount ==
    [][ ( /\ LineStep
          /\ Kind(l') = "ref"
          /\ ColonCount(l') # 1 )
        => /\ pc' = "failed"
           /\ result' = LangError(l_no, IF ColonCount(l') = 0 THEN "expected ':'"
                                        ELSE "invalid syntax", <<>>)
           /\ heap' = heap
      ]_vars

\* C20 witness: after `@x:1`, the line `~@y:a:b` failed with 'invalid syntax'
\* and the root holds x alone.
C20_Witness ==
    /\ pc = "failed"
    /\ lines = << <<"@", "x", ":", "1">>, <<"~", "@", "y", ":", "a", ":", "b">> >>
    /\ result = LangError(1, "invalid syntax", <<>>)
    /\ Raw(heap, 1) = << [k |-> <<"x">>, v |-> StrV(<<"1">>)] >>

\* C21 as claimed: a reference whose path names an existing child set is
\* resolved without loads failing: when the only reference of the text is an
\* absolute reference in the root set to a set declared before it in the
\* root set, loads returns a tree in which the reference holds that set.
C21_SetReferenceResolves ==
    ( /\ RanResolution
      /\ Len(Evals(heap, 1, 1)) = 1
      /\ \E i \in 1..Len(heap[1]) :
            /\ heap[1][i].v.t = "eval"
            /\ ~heap[1][i].v.local
            /\ Len(heap[1][i].v.branches) = 1
            /\ \E j \in 1..(i - 1) :
                  /\ heap[1][j].k = heap[1][i].v.branches[1]
                  /\ heap[1][j].v.t = "dict" )
    => /\ result.kind = "node"
       /\ \A i \in 1..Len(heap[1]) :
             heap[1][i].v.t = "eval" =>
                Lookup(result.val, heap[1][i].k) =
                   Lookup(result.val, heap[1][i].v.branches[1])

\* C22 as claimed: on a text whose encoding declarations match the encoding
\* argument, loads returns a tree or fails with a LangError, which carries a
\* line number and a message; no other failure escapes.
C22_OnlyLangErrorEscapes ==
    (family # "file" /\ result.kind # "EncodingWarning")
    => /\ result.kind \in {"running", "dict", "node", "LangError"}
       /\ result.kind = "LangError" => {"line", "msg"} \subseteq DOMAIN result

DeclaresOther(b, name) ==
    /\ Len(b) >= 2
    /\ b[1] = "%"
    /\ b[2] = "="
    /\ lower(SubSeq(b, 3, Len(b))) # lower(name)

\* C24 as claimed: when the file holds a `%=name` line whose name differs,
\* ignoring case, from the encoding in use, load does not fail on reading the
\* file: it abandons the build at that line, reads the file again with the
\* declared encoding and builds it from its first line with an empty tree;
\* when the name equals the encoding ignoring case the build goes on.
C24_MismatchRestarts ==
    /\ [] ( ( /\ family = "file"
              /\ pass = 1
              /\ \E i \in 1..Len(file) : DeclaresOther(file[i], encoding) )
            => result.kind # "UnicodeDecodeError" )
    /\ [][ ( /\ family = "file"
             /\ pass = 1
             /\ LineStep
             /\ Kind(l') = "encoding" )
           => IF lower(Body(l', 2)) = lower(encoding)
              THEN pc' = "build" /\ heap' = heap /\ pass' = 1
              ELSE pc' = "failed" /\ result' = EncodingWarning(Body(l', 2))
         ]_vars
    /\ [][ ( /\ family = "file"
             /\ pass = 1
             /\ pc = "failed"
             /\ result.kind = "EncodingWarning"
             /\ vars' # vars )
           => /\ pass' = 2
              /\ encoding' = result.arg
              /\ heap' = << <<>> >>
              /\ dict_stack' = <<1>>
              /\ attr' = <<>>
              /\ l_no' = 0
         ]_vars

\* C25: load makes at most two build passes: an encoding declaration that
\* differs from the encoding of the second pass raises EncodingWarning, and
\* nothing follows it.
C25_AtMostTwoPasses ==
    /\ [] (pass \in {1, 2})
    /\ [][ ( /\ pass = 2
             /\ LineStep
             /\ Kind(l') = "encoding"
             /\ lower(Body(l', 2)) # lower(encoding) )
           => /\ pc' = "failed"
              /\ result' = EncodingWarning(Body(l', 2))
              /\ pass' = 2
         ]_vars
    /\ [][ (pass = 2 /\ pc = "failed") => UNCHANGED vars ]_vars

\* C25 witness: on the file `%=latin`, `%=utf-8` read as utf-8, the second
\* pass, under latin, has raised EncodingWarning('utf-8').
C25_Witness ==
    /\ family = "file"
    /\ file = << <<"%", "=", "l", "a", "t", "i", "n">>,
                 <<"%", "=", "u", "t", "f", "-", "8">> >>
    /\ pass = 2
    /\ encoding = Latin
    /\ pc = "failed"
    /\ result = EncodingWarning(Utf8)

\* C26 as claimed: loads never fails with EncodingWarning: on a declaration
\* that differs from the encoding argument it builds the text again with the
\* declared encoding and returns the tree.
C26_LoadsRestarts == family # "file" => result.kind # "EncodingWarning"

\* The resolved node equals the raw dict d: the same names in the same
\* order, a node for each set, the same string for each attribute.
RECURSIVE SameTree(_, _, _)
SameTree(attrs, h, d) ==
    /\ Len(attrs) = Len(h[d])
    /\ \A i \in 1..Len(h[d]) :
          /\ attrs[i].k = h[d][i].k
          /\ IF h[d][i].v.t = "dict"
             THEN attrs[i].v.t = "node" /\ SameTree(attrs[i].v.attrs, h, h[d][i].v.id)
             ELSE attrs[i].v = h[d][i].v

\* C27 as claimed: on a text the build accepts and that declares no
\* reference, loads returns a resolved tree equal to the raw tree: the same
\* names, the same nesting, the same strings.
C27_NoReferenceNoChange ==
    (RanResolution /\ Evals(heap, 1, 1) = <<>>)
    => /\ result.kind = "node"
       /\ SameTree(result.val, heap, 1)

\* C29 as claimed: a reference to an attribute declared on a later line
\* resolves to the value of that attribute: when the only reference of the
\* text sits in the root set and names a string attribute of the root set
\* declared after it, loads returns a tree in which it holds that string.
C29_ForwardReferenceResolves ==
    ( /\ RanResolution
      /\ Len(Evals(heap, 1, 1)) = 1
      /\ \E i \in 1..Len(heap[1]) :
            /\ heap[1][i].v.t = "eval"
            /\ heap[1][i].v.added_value = <<>>
            /\ Len(heap[1][i].v.branches) = 1
            /\ \E j \in (i + 1)..Len(heap[1]) :
                  /\ heap[1][j].k = heap[1][i].v.branches[1]
                  /\ heap[1][j].v.t = "str" )
    => /\ result.kind = "node"
       /\ \A i \in 1..Len(heap[1]) :
             heap[1][i].v.t = "eval" =>
                Lookup(result.val, heap[1][i].k) =
                   Lookup(heap[1], heap[1][i].v.branches[1])

\* C28: on an AniElement that has a '_hide' animation, hide() starts the
\* animation and leaves hidden as it is; no call hides the element while
\* '_hide' is running after it; the element becomes hidden in update_ani
\* alone, at the first call, made while it is hiding, after which '_hide' is
\* not running.
C28_HiddenWhenHideAniEnds ==
    [][ "_hide" \in present =>
          /\ call' = "hide" =>
                /\ hidden' = hidden
                /\ is_hiding'
                /\ Running_(frame', "_hide")
          /\ (~hidden /\ Running_(frame', "_hide")) => ~hidden'
          /\ (call' = "update_ani" /\ is_hiding /\ ~Running_(frame', "_hide"))
                => hidden' /\ ~is_hiding'
          /\ (~hidden /\ hidden')
                => call' = "update_ani" /\ is_hiding /\ ~Running_(frame', "_hide")
      ]_vars

\* C28 witness: an element with '_hide' is hidden, which takes hide(), then an
\* update_ani call at whose end '_hide' was not running.
C28_Witness ==
    /\ "_hide" \in present
    /\ call = "update_ani"
    /\ hidden
    /\ ~is_hiding
    /\ ~Running_(frame, "_hide")

\* C30 as claimed: once the cursor has entered the element with a button
\* held, every poll of clicked returns (False, False, False) until a poll has
\* seen the cursor inside the element with no button pressed.
C30_EnterHeldNotClicked ==
    [][ (call' = "clicked" /\ entered_held') => clicked_ret' = NoButton ]_vars

\* C31 as claimed: after rotate(angle, abs_=True) _rot is angle mod 360, after
\* rotate(angle) it is (previous _rot + angle) mod 360, and _rot is the
\* rotation of the image displayed.
C31_RotFollowsRotate ==
    [][ call' = "rotate" =>
          /\ rot' = (IF abs_' THEN angle' ELSE rot + angle') % 360
          /\ rot' = image_rot'
      ]_vars

\* C35 as claimed: assigning the width of a GUIElement, or drawing it with
\* only rel_size.w set, leaves true_size.h as it was, and assigning the
\* height, or drawing it with only rel_size.h set, leaves true_size.w as it
\* was.
C35_WidthLeavesHeight ==
    [][ /\ (call' = "w" \/ (call' = "draw" /\ rel_size.h = "None"))
            => rect_size'.h = rect_size.h
        /\ (call' = "h" \/ (call' = "draw" /\ rel_size.w = "None"))
            => rect_size'.w = rect_size.w
      ]_vars

\* C36 as claimed: from a show() call on, the AniElement is not hidden until
\* hide() is called, whatever came before the show().
C36_ShownStaysVisible == shown => ~hidden

\* The dicts that hold the dict id as the value of one of their keys.
Holders(h, id) ==
    { d \in 1..Len(h) : \E j \in 1..Len(h[d]) : h[d][j].v = DictV(id) }

\* The nesting level of a set: 0 for the root, one more than its holder's.
RECURSIVE Level(_, _)
Level(h, id) ==
    IF id = 1 \/ Holders(h, id) = {} THEN 0
    ELSE 1 + Level(h, CHOOSE d \in Holders(h, id) : TRUE)

\* C32: during the build pass the scope stack is never empty and holds the
\* root at its bottom; its height less one is the nesting level of the set
\* on top; and after an accepted set-open line with n markers exactly n sets
\* are open.
C32_StackHeightIsLevel ==
    /\ [](pc \in {"build", "failed", "done"} =>
            /\ Len(dict_stack) >= 1
            /\ dict_stack[1] = 1
            /\ \A i \in 2..Len(dict_stack) : dict_stack[i] # 1
            /\ Level(heap, peek(dict_stack)) = Len(dict_stack) - 1)
    /\ [][ (LineStep /\ IsOpen(l') /\ pc' = "build")
             => Len(dict_stack') - 1 = Markers(l') ]_vars

\* C32 witness: `$a`, `$$b`, `$$$c`, `$$b` is accepted and leaves two sets
\* open, the root below them.
C32_Witness ==
    /\ pc = "build"
    /\ lines = << <<"$", "a">>, <<"$", "$", "b">>, <<"$", "$", "$", "c">>,
                  <<"$", "$", "b">> >>
    /\ Len(dict_stack) = 3
    /\ dict_stack[1] = 1
    /\ Level(heap, peek(dict_stack)) = 2

Referenced(h, id) == Holders(h, id) # {}

\* C34: an accepted set-open line whose name is already a key of the parent
\* set puts a new empty set in the place of the earlier entry; the earlier
\* set is held by no set from then on, so what was written into it is not
\* in the returned tree.
C34_ReopenReplaces ==
    /\ [][ ( /\ LineStep
             /\ IsOpen(l')
             /\ pc' = "build"
             /\ HasKey(heap[dict_stack[Markers(l')]], AfterMarkers(l')) )
           => LET parent == dict_stack[Markers(l')]
                  name == AfterMarkers(l')
                  old == Lookup(heap[parent], name)
                  new == peek(dict_stack')
              IN /\ new = Len(heap) + 1
                 /\ heap'[new] = <<>>
                 /\ Lookup(heap'[parent], name) = DictV(new)
                 /\ Len(heap'[parent]) = Len(heap[parent])
                 /\ old.t = "dict" => ~Referenced(heap', old.id)
         ]_vars
    /\ [][ \A id \in 2..Len(heap) :
              ~Referenced(heap, id) => ~Referenced(heap', id) ]_vars
    /\ [](pc = "done" /\ as_dict => result.val = Raw(heap, 1))

\* C34 witness: `$a`, `$$b`, `@x:1`, `$a` returns {a: {}}: neither b nor x is
\* in the tree.
C34_Witness ==
    /\ pc = "done"
    /\ as_dict
    /\ lines = << <<"$", "a">>, <<"$", "$", "b">>, <<"@", "x", ":", "1">>,
                  <<"$", "a">> >>
    /\ result.val = << [k |-> <<"a">>, v |-> [t |-> "dict", attrs |-> <<>>]] >>

====
